---- MODULE Spec2Model ----
(***************************************************************************)
(* A model of the OblivAI browser application: the network gate that       *)
(* SecurityManager installs over window.fetch, the in-memory network audit *)
(* log, the chat store and the storage scrub.                              *)
(*                                                                         *)
(* Text is modelled as a sequence of pieces, each piece a fixed run of     *)
(* characters ("huggingface", ".", "co", ...); startsWith, endsWith and    *)
(* includes are the JavaScript string methods applied piece-wise.  The     *)
(* host names enumerated below are chosen so that piece-wise matching and  *)
(* character-wise matching agree on them.                                  *)
(***************************************************************************)
EXTENDS Integers, Sequences, FiniteSets, TLC

VARIABLES
    requests,        \* NetworkAuditLog.requests
    now,             \* the reading Date.now() returns at the next call
    fetched,         \* the calls that reached the original window.fetch
    lastCall,        \* outcome of the latest call of the wrapped fetch
    \* the chat store (useChatStore)
    messages,
    selectedModel,
    isGenerating,
    isDarkMode,
    autoDeleteChats,
    systemInstruction,
    storageEnabled,
    contextTokenCount,
    showContextWarning,
    \* the browser
    documentClass,   \* the theme class of document.documentElement
    localStorage,    \* window.localStorage: key -> value
    sessionStorage,  \* window.sessionStorage: key -> value
    idb,             \* names of the IndexedDB databases of the origin
    caches,          \* names of the Cache Storage caches of the origin
    storageAccessible, \* FALSE when localStorage/sessionStorage access throws
    pending,         \* promise continuations that have not run yet
    page,            \* "closed", "open" or "unloading"
    visible,         \* ~document.hidden
    unsupported,     \* the APIs among caches, indexedDB and crypto that are missing or denied
    \* the DOM mutation watcher
    node,            \* the element of the latest childList mutation
    \* a RateLimiter
    timestamps,
    maxRequests,
    windowMs,
    granted,         \* the times of the calls of canProceed() that returned true
    \* the App component
    currentView,     \* "landing", "model-select" or "chat"
    isModelLoading,
    \* the WebLLMService
    engine,          \* this.engine: an engine, or NoEngine for null
    currentModel,
    isLoading,
    abortController, \* this.abortController: a controller, or NoController for null
    aborted,         \* the controllers whose signal is aborted
    engines,         \* the engines created and not yet unloaded or lost
    loads,           \* the calls of initializeModel, in call order
    gens,            \* the calls of generateResponse, in call order
    lastGen,         \* the generation the latest step belongs to, and the error it caught
    lastOp           \* the latest operation and whether it threw

gateVars == <<requests, now, fetched, lastCall>>

storeVars ==
    <<messages, selectedModel, isGenerating, isDarkMode, autoDeleteChats,
      systemInstruction, storageEnabled, contextTokenCount, showContextWarning>>

browserVars ==
    <<documentClass, localStorage, sessionStorage, idb, caches, storageAccessible,
      pending, page, visible, unsupported>>

watchVars == <<node>>

limiterVars == <<timestamps, maxRequests, windowMs, granted>>

appVars == <<currentView, isModelLoading>>

serviceVars == <<engine, currentModel, isLoading, abortController, aborted, engines, loads>>

chatVars == <<appVars, serviceVars, gens, lastGen>>

vars == <<gateVars, storeVars, browserVars, chatVars, watchVars, limiterVars, lastOp>>

-----------------------------------------------------------------------------
(* Bounds of the model *)

\* number of wrapped-fetch calls in a run of SpecGate
MaxCalls == 2
\* logRequest calls made beyond the capacity of the log in a run of SpecAudit
Overflow == 3
\* number of leading logRequest calls of SpecAudit whose verdict is free
VariedCalls == 2
\* longest message list of SpecStore
MaxMsgs == 2

-----------------------------------------------------------------------------
(* JavaScript string methods on sequences of pieces *)

StartsWith(s, p) == Len(p) <= Len(s) /\ SubSeq(s, 1, Len(p)) = p

EndsWith(s, p) == Len(p) <= Len(s) /\ SubSeq(s, Len(s) - Len(p) + 1, Len(s)) = p

Includes(s, p) == \E i \in 0..(Len(s) - Len(p)) : SubSeq(s, i + 1, i + Len(p)) = p

-----------------------------------------------------------------------------
(* Host names *)

Dot == "."

huggingface_co == <<"huggingface", Dot, "co">>
cdn_lfs_huggingface_co == <<"cdn-lfs", Dot, "huggingface", Dot, "co">>
raw_githubusercontent_com == <<"raw", Dot, "githubusercontent", Dot, "com">>
xethub_hf_co == <<"xethub", Dot, "hf", Dot, "co">>

\* the allowedDomains array of the fetch override
allowedDomains ==
    <<huggingface_co, cdn_lfs_huggingface_co, raw_githubusercontent_com, xethub_hf_co>>

\* window.location.hostname and window.location.origin of the served page
LocationHostname == <<"oblivai", Dot, "example">>

localhost == <<"localhost">>
loopback_ip == <<"127", Dot, "0", Dot, "0", Dot, "1">>

\* hosts of the classes the gate is documented to let through
PermittedHosts ==
    { huggingface_co,
      cdn_lfs_huggingface_co,
      raw_githubusercontent_com,
      xethub_hf_co,
      <<"cas-bridge", Dot, "xethub", Dot, "hf", Dot, "co">>,
      LocationHostname,
      localhost,
      loopback_ip,
      <<"abcdef", Dot, "onion">>,
      <<"192", Dot, "168", Dot, "1", Dot, "5">>,
      <<"10", Dot, "0", Dot, "0", Dot, "7">>,
      <<"172", Dot, "16", Dot, "0", Dot, "1">>,
      <<"172", Dot, "31", Dot, "0", Dot, "9">> }

\* hosts of none of those classes
ForeignHosts ==
    { <<"evil", Dot, "example", Dot, "com">>,
      <<"172", Dot, "32", Dot, "0", Dot, "1">>,
      <<"huggingface", Dot, "co", Dot, "evil", Dot, "example">>,
      <<"oblivai", Dot, "example", Dot, "evil", Dot, "example">>,
      <<"10", Dot, "evil", Dot, "example">> }

Hosts == PermittedHosts \cup ForeignHosts

-----------------------------------------------------------------------------
(* URL texts.  A text is a record of its syntactic form:                   *)
(*   abs       "https://<host>/x"                                          *)
(*   protorel  "//<host>/x"                                                *)
(*   pathabs   "/x"                                                        *)
(*   dotrel    "./x"                                                       *)
(*   rel       "x"  (also "[object Request]")                              *)
(*   bad       a text the URL parser rejects, such as "https://"           *)

NoHost == << >>

AbsUrl(h) == [form |-> "abs", host |-> h, text |-> "x"]
ProtoRelUrl(h) == [form |-> "protorel", host |-> h, text |-> "x"]
PathAbsUrl == [form |-> "pathabs", host |-> NoHost, text |-> "x"]
DotRelUrl == [form |-> "dotrel", host |-> NoHost, text |-> "x"]
RelUrl == [form |-> "rel", host |-> NoHost, text |-> "x"]
BadUrl == [form |-> "bad", host |-> NoHost, text |-> "https://"]

\* what Object.prototype.toString gives for a Request object
ObjectRequestText == [form |-> "rel", host |-> NoHost, text |-> "[object Request]"]

\* url.startsWith('/') and url.startsWith('./')
UrlStartsWithSlash(url) == url.form \in {"protorel", "pathabs"}
UrlStartsWithDotSlash(url) == url.form = "dotrel"

\* new URL(url, window.location.origin): the hostname, or a TypeError
ParseURL(url) ==
    CASE url.form \in {"abs", "protorel"} -> [ok |-> TRUE, hostname |-> url.host]
      [] url.form \in {"pathabs", "dotrel", "rel"} -> [ok |-> TRUE, hostname |-> LocationHostname]
      [] OTHER -> [ok |-> FALSE, hostname |-> NoHost]

-----------------------------------------------------------------------------
(* Arguments of fetch *)

StringInputs ==
    { [kind |-> "string", url |-> AbsUrl(h)] : h \in Hosts }
    \cup { [kind |-> "string", url |-> ProtoRelUrl(h)] :
             h \in {huggingface_co, <<"evil", Dot, "example", Dot, "com">>} }
    \cup { [kind |-> "string", url |-> u] : u \in {PathAbsUrl, DotRelUrl, RelUrl, BadUrl} }

UrlObjectInputs ==
    { [kind |-> "URL", url |-> AbsUrl(h)] :
        h \in {huggingface_co, LocationHostname, <<"evil", Dot, "example", Dot, "com">>} }

RequestInputs ==
    { [kind |-> "Request", url |-> AbsUrl(h)] :
        h \in {huggingface_co, LocationHostname, <<"evil", Dot, "example", Dot, "com">>} }

FetchInputs == StringInputs \cup UrlObjectInputs \cup RequestInputs

\* init is undefined, or an object with a method
NoInit == [method |-> "undefined"]
FetchInits == {NoInit, [method |-> "POST"]}

\* typeof input === 'string' ? input : input.toString()
InputToString(input) ==
    IF input.kind = "string" THEN input.url
    ELSE IF input.kind = "URL" THEN input.url
    ELSE ObjectRequestText

\* init?.method || 'GET'
MethodOf(init) == IF init.method = "undefined" THEN "GET" ELSE init.method

-----------------------------------------------------------------------------
(* NetworkAuditLog *)

MAX_ENTRIES == 100

\* a faulty variant of logRequest: it drops the newest entry, not the oldest
logRequestPop(log, url, allowed, reason, method, ts) ==
    LET pushed == Append(log, [url |-> url, timestamp |-> ts, blocked |-> ~allowed,
                               reason |-> reason, method |-> method])
    IN IF Len(pushed) > MAX_ENTRIES THEN SubSeq(pushed, 1, MAX_ENTRIES) ELSE pushed

\* logRequest: push, then shift while over capacity; ts is the reading of Date.now()
logRequest(log, url, allowed, reason, method, ts) ==
    LET pushed == Append(log, [url |-> url, timestamp |-> ts, blocked |-> ~allowed,
                               reason |-> reason, method |-> method])
    IN IF Len(pushed) > MAX_ENTRIES THEN Tail(pushed) ELSE pushed

\* getBlockedRequests and getAllowedRequests
getBlockedRequests == SelectSeq(requests, LAMBDA r : r.blocked)
getAllowedRequests == SelectSeq(requests, LAMBDA r : ~r.blocked)

-----------------------------------------------------------------------------
(* The fetch override of SecurityManager.deployNetworkSecurity *)

\* allowedDomains.some(domain => urlObj.hostname.includes(domain))
IsAllowed(hostname) ==
    \E i \in DOMAIN allowedDomains : Includes(hostname, allowedDomains[i])

\* a faulty variant of IsLocalRequest: the .onion test is missing
IsLocalRequestNoOnion(hostname) ==
    \/ Includes(hostname, LocationHostname)
    \/ hostname = localhost
    \/ hostname = loopback_ip
    \/ StartsWith(hostname, <<"192", Dot, "168", Dot>>)
    \/ StartsWith(hostname, <<"10", Dot>>)
    \/ \E n \in 16..31 : StartsWith(hostname, <<"172", Dot, ToString(n), Dot>>)

\* isLocalRequest
IsLocalRequest(hostname) ==
    \/ Includes(hostname, LocationHostname)
    \/ hostname = localhost
    \/ hostname = loopback_ip
    \/ EndsWith(hostname, <<Dot, "onion">>)
    \/ StartsWith(hostname, <<"192", Dot, "168", Dot>>)
    \/ StartsWith(hostname, <<"10", Dot>>)
    \/ \E n \in 16..31 : StartsWith(hostname, <<"172", Dot, ToString(n), Dot>>)

\* the test of validateOrigin: the host is the domain or a subdomain of it
MatchesDomain(hostname, domain) ==
    hostname = domain \/ EndsWith(hostname, <<Dot>> \o domain)

\* the try block: parse, decide, log; threw tells whether control left it by
\* an exception (the parser's TypeError or the block's own Error)
TryBlock(log, url, method, ts) ==
    LET p == ParseURL(url)
    IN IF ~p.ok
       THEN [log |-> log, threw |-> TRUE]
       ELSE IF ~IsAllowed(p.hostname) /\ ~IsLocalRequest(p.hostname)
            THEN [log |-> logRequest(log, url, FALSE, "Domain not in whitelist", method, ts),
                  threw |-> TRUE]
            ELSE [log |-> logRequest(log, url, TRUE,
                                     IF IsLocalRequest(p.hostname) THEN "Local request"
                                     ELSE "Whitelisted domain",
                                     method, ts),
                  threw |-> FALSE]

\* the catch block, entered by every exception of the try block
CatchBlock(log, url, method, ts) ==
    IF UrlStartsWithSlash(url) \/ UrlStartsWithDotSlash(url)
    THEN [log |-> logRequest(log, url, TRUE, "Local resource", method, ts), threw |-> FALSE]
    ELSE [log |-> logRequest(log, url, FALSE, "Invalid or blocked URL", method, ts),
          threw |-> TRUE]

\* the gate up to the call of originalFetch
GateDecision(log, input, init, ts) ==
    LET url == InputToString(input)
        method == MethodOf(init)
        t == TryBlock(log, url, method, ts)
    IN IF t.threw THEN CatchBlock(t.log, url, method, ts) ELSE t

NoCall ==
    [called |-> FALSE, input |-> [kind |-> "string", url |-> BadUrl], init |-> NoInit,
     threw |-> FALSE, nLogged |-> 0, nFetched |-> 0]

Op(name) == [op |-> name, threw |-> FALSE]
Threw(name) == [op |-> name, threw |-> TRUE]

\* window.fetch(input, init)
WrappedFetch(input, init) ==
    LET d == GateDecision(requests, input, init, now)
    IN /\ requests' = d.log
       /\ fetched' = IF d.threw THEN fetched
                     ELSE Append(fetched, [input |-> input, init |-> init])
       /\ lastCall' = [called |-> TRUE, input |-> input, init |-> init, threw |-> d.threw,
                       nLogged |-> Len(requests), nFetched |-> Len(fetched)]
       /\ now' = now + 1
       /\ lastOp' = IF d.threw THEN Threw("fetch") ELSE Op("fetch")
       /\ UNCHANGED <<storeVars, browserVars, chatVars, watchVars, limiterVars>>

Fetch ==
    /\ now < MaxCalls
    /\ \E input \in FetchInputs, init \in FetchInits : WrappedFetch(input, init)

-----------------------------------------------------------------------------
(* The audit log driven directly *)

AuditUrl(allowed) ==
    IF allowed THEN AbsUrl(huggingface_co) ELSE AbsUrl(<<"evil", Dot, "example", Dot, "com">>)

AuditLogRequest ==
    /\ now < MAX_ENTRIES + Overflow
    /\ \E allowed \in (IF now < VariedCalls THEN BOOLEAN ELSE {TRUE}) :
          requests' = logRequest(requests, AuditUrl(allowed), allowed,
                                 IF allowed THEN "Whitelisted domain"
                                 ELSE "Domain not in whitelist",
                                 "GET", now)
    /\ now' = now + 1
    /\ lastOp' = Op("logRequest")
    /\ UNCHANGED <<fetched, lastCall, storeVars, browserVars, chatVars, watchVars, limiterVars>>

\* clear()
AuditClear ==
    /\ requests' = << >>
    /\ lastOp' = Op("clear")
    /\ UNCHANGED <<now, fetched, lastCall, storeVars, browserVars, chatVars, watchVars, limiterVars>>

-----------------------------------------------------------------------------
(* Text of chat messages: a sequence of pieces, each of a known length *)

\* crypto.getRandomValues rejects an array of more than this many bytes
GetRandomValuesQuota == 65536

\* "hi" is a short text; "flood" a text one character longer than the quota;
\* "random" the decimal rendering of random bytes; "Hel" and "lo" are token
\* deltas; the others are the texts of errors and of error messages
PieceLen(piece) ==
    CASE piece = "hi" -> 2
      [] piece = "flood" -> GetRandomValuesQuota + 1
      [] piece = "random" -> 3
      [] piece = "Hel" -> 3
      [] piece = "lo" -> 2
      [] piece = "Error: " -> 7
      [] piece = "Failed to generate response: " -> 29
      [] piece = "GPU_DEVICE_LOST" -> 15
      [] piece = ": GPU ran out of memory. Please reload the model or try a smaller one." -> 70
      [] piece = "Generation cancelled" -> 20
      [] piece = "Cannot read properties of null (reading 'signal')" -> 49
      [] piece = "Device was lost" -> 15
      [] piece = "The operation was aborted" -> 25
      [] piece = "out of tokens" -> 13
      [] piece = "GPU Memory Error ... reload the same model" -> 259

RECURSIVE StrLen(_)
\* content.length
StrLen(text) == IF text = << >> THEN 0 ELSE PieceLen(Head(text)) + StrLen(Tail(text))

\* ChatMessage, without its timestamp.  The messages addMessage is called
\* with: a user message (at most 4000 characters), the empty assistant
\* placeholder, an assistant error message
ChatMessages ==
    { [role |-> "user", content |-> <<"hi">>],
      [role |-> "assistant", content |-> << >>],
      [role |-> "assistant", content |-> <<"hi">>] }

\* the accumulated assistant text a streaming update writes
StreamContents == {<<"hi">>, <<"flood">>}

RECURSIVE TotalChars(_)
\* newMessages.reduce((sum, msg) => sum + msg.content.length, 0)
TotalChars(msgs) ==
    IF msgs = << >> THEN 0 ELSE StrLen(Head(msgs).content) + TotalChars(Tail(msgs))

\* Math.ceil(totalChars / 4)
EstimatedTokens(msgs) == (TotalChars(msgs) + 3) \div 4

\* the context length above which the warning is shown
ContextWarningTokens == 2048

-----------------------------------------------------------------------------
(* Browser storage *)

THEME_KEY == "oblivai-theme"

EmptyStorage == [k \in {} |-> ""]

\* storage.setItem(key, value)
SetItem(storage, key, value) ==
    [k \in DOMAIN storage \cup {key} |-> IF k = key THEN value ELSE storage[k]]

\* cache names the service worker and the inference library use, and others
webllm_model_cache == <<"webllm", "/", "model">>
tvmjs_cache == <<"tvmjs">>
oblivai_static_cache == <<"oblivai-static", "-", "v1">>
other_cache == <<"analytics">>

CacheUniverse == {webllm_model_cache, tvmjs_cache, oblivai_static_cache, other_cache}

\* database names: the five of the allow-list, one that contains an
\* allow-listed name, one unrelated
webllm_db == <<"webllm">>
webllm_cache_db == <<"webllm", "-", "cache">>
mlc_wasm_cache_db == <<"mlc", "-", "wasm", "-", "cache">>
mlc_chat_config_db == <<"mlc", "-", "chat", "-", "config">>
tvmjs_db == <<"tvmjs">>
notes_about_webllm_db == <<"notes", "-", "about", "-", "webllm">>
chat_notes_db == <<"chat", "-", "notes">>

\* allowedDatabases of clearUserDataFromIndexedDB
allowedDatabases ==
    {webllm_db, webllm_cache_db, mlc_wasm_cache_db, mlc_chat_config_db, tvmjs_db}

\* preserveDatabases of clearAllHistory
preserveDatabases == {webllm_db, mlc_wasm_cache_db, mlc_chat_config_db, tvmjs_db}

IdbUniverse == {webllm_cache_db, tvmjs_db, notes_about_webllm_db, chat_notes_db}

\* the filter of the caches.keys() continuation of clearAllHistory
StoreKeepsCache(name) ==
    \/ Includes(name, <<"mlc">>)
    \/ Includes(name, <<"webllm">>)
    \/ Includes(name, <<"oblivai-static">>)

\* the filter of the indexedDB.databases() continuation of clearAllHistory
StoreKeepsDatabase(name) == \E p \in preserveDatabases : Includes(name, p)

\* caches.keys().then(...) of clearAllHistory
RunStoreCaches ==
    /\ "storeCaches" \in pending
    /\ page # "closed"
    /\ caches' = {c \in caches : StoreKeepsCache(c)}
    /\ pending' = pending \ {"storeCaches"}
    /\ lastOp' = Op("storeCachesThen")
    /\ UNCHANGED <<gateVars, watchVars, limiterVars, chatVars, storeVars, documentClass, localStorage, sessionStorage, idb,
                   storageAccessible, unsupported, page, visible>>

\* indexedDB.databases().then(...) of clearAllHistory
RunStoreIdb ==
    /\ "storeIdb" \in pending
    /\ page # "closed"
    /\ idb' = {d \in idb : StoreKeepsDatabase(d)}
    /\ pending' = pending \ {"storeIdb"}
    /\ lastOp' = Op("storeIdbThen")
    /\ UNCHANGED <<gateVars, watchVars, limiterVars, chatVars, storeVars, documentClass, localStorage, sessionStorage, caches,
                   storageAccessible, unsupported, page, visible>>

-----------------------------------------------------------------------------
(* The chat store *)

\* addMessage(message)
AddMessage(message) ==
    LET newMessages == Append(messages, message)
        estimatedTokens == EstimatedTokens(newMessages)
    IN /\ messages' = newMessages
       /\ contextTokenCount' = estimatedTokens
       /\ showContextWarning' = (estimatedTokens > ContextWarningTokens)
       /\ lastOp' = Op("addMessage")
       /\ UNCHANGED <<gateVars, watchVars, limiterVars, chatVars, browserVars, selectedModel, isGenerating, isDarkMode,
                      autoDeleteChats, systemInstruction, storageEnabled>>

\* useChatStore.setState(state => ({ messages: [...state.messages.slice(0, -1),
\* { ...assistantMessage, content }] })), the streaming update
SetStateReplaceLast(content) ==
    /\ messages' = Append(SubSeq(messages, 1, Len(messages) - 1),
                          [role |-> "assistant", content |-> content])
    /\ lastOp' = Op("replaceLast")
    /\ UNCHANGED <<gateVars, watchVars, limiterVars, chatVars, browserVars, selectedModel, isGenerating, isDarkMode,
                   autoDeleteChats, systemInstruction, storageEnabled, contextTokenCount,
                   showContextWarning>>

\* clearMessages()
ClearMessages ==
    /\ messages' = << >>
    /\ contextTokenCount' = 0
    /\ showContextWarning' = FALSE
    /\ lastOp' = Op("clearMessages")
    /\ UNCHANGED <<gateVars, watchVars, limiterVars, chatVars, browserVars, selectedModel, isGenerating, isDarkMode,
                   autoDeleteChats, systemInstruction, storageEnabled>>

\* index of the first message whose overwrite throws, 0 when none does:
\* crypto.getRandomValues(new Uint8Array(len)) raises QuotaExceededError for
\* len > 65536
FirstOverQuota(msgs) ==
    LET over == {i \in DOMAIN msgs : StrLen(msgs[i].content) > GetRandomValuesQuota}
    IN IF over = {} THEN 0 ELSE CHOOSE i \in over : \A j \in over : i <= j

\* a message after the overwrite of its content and role
Overwritten(msg) ==
    [role |-> "", content |-> IF msg.content = << >> THEN << >> ELSE <<"random">>]

\* clearAllHistory()
ClearAllHistory ==
    LET k == IF "crypto" \in unsupported /\ messages # << >>
             THEN 1   \* crypto.getRandomValues is not there to call
             ELSE FirstOverQuota(messages)
    IN IF k # 0
       THEN \* the forEach throws at message k; the messages before it were
            \* overwritten in place, and set() is never reached
            /\ messages' = [i \in DOMAIN messages |->
                               IF i < k THEN Overwritten(messages[i]) ELSE messages[i]]
            /\ lastOp' = Threw("clearAllHistory")
            /\ UNCHANGED <<gateVars, watchVars, limiterVars, chatVars, browserVars, selectedModel, isGenerating, isDarkMode,
                           autoDeleteChats, systemInstruction, storageEnabled,
                           contextTokenCount, showContextWarning>>
       ELSE /\ messages' = << >>
            /\ contextTokenCount' = 0
            /\ showContextWarning' = FALSE
            /\ systemInstruction' = << >>
            /\ localStorage' = IF storageAccessible THEN EmptyStorage ELSE localStorage
            /\ sessionStorage' = IF storageAccessible THEN EmptyStorage ELSE sessionStorage
            /\ pending' = pending \cup ({"storeCaches" : x \in {"caches"} \ unsupported}
                                         \cup {"storeIdb" : x \in {"indexedDB"} \ unsupported})
            /\ lastOp' = Op("clearAllHistory")
            /\ UNCHANGED <<gateVars, watchVars, limiterVars, chatVars, selectedModel, isGenerating, isDarkMode,
                           autoDeleteChats, storageEnabled, documentClass, idb, caches,
                           storageAccessible, unsupported, page, visible>>

\* setSelectedModel(model)
SetSelectedModel(model) ==
    /\ selectedModel' = model
    /\ lastOp' = Op("setSelectedModel")
    /\ UNCHANGED <<gateVars, watchVars, limiterVars, chatVars, browserVars, messages, isGenerating, isDarkMode,
                   autoDeleteChats, systemInstruction, storageEnabled, contextTokenCount,
                   showContextWarning>>

\* setGenerating(isGenerating)
SetGenerating(value) ==
    /\ isGenerating' = value
    /\ lastOp' = Op("setGenerating")
    /\ UNCHANGED <<gateVars, watchVars, limiterVars, chatVars, browserVars, messages, selectedModel, isDarkMode,
                   autoDeleteChats, systemInstruction, storageEnabled, contextTokenCount,
                   showContextWarning>>

\* toggleDarkMode()
ToggleDarkMode ==
    LET newMode == ~isDarkMode
    IN /\ documentClass' = IF newMode THEN "dark" ELSE "light"
       /\ localStorage' = IF storageAccessible
                          THEN SetItem(localStorage, THEME_KEY,
                                       IF newMode THEN "dark" ELSE "light")
                          ELSE localStorage
       /\ isDarkMode' = newMode
       /\ lastOp' = Op("toggleDarkMode")
       /\ UNCHANGED <<gateVars, watchVars, limiterVars, chatVars, messages, selectedModel, isGenerating, autoDeleteChats,
                      systemInstruction, storageEnabled, contextTokenCount,
                      showContextWarning, sessionStorage, idb, caches, storageAccessible, unsupported,
                      pending, page, visible>>

\* setAutoDeleteChats(autoDelete)
SetAutoDeleteChats(value) ==
    /\ autoDeleteChats' = value
    /\ lastOp' = Op("setAutoDeleteChats")
    /\ UNCHANGED <<gateVars, watchVars, limiterVars, chatVars, browserVars, messages, selectedModel, isGenerating,
                   isDarkMode, systemInstruction, storageEnabled, contextTokenCount,
                   showContextWarning>>

\* setSystemInstruction(instruction)
SetSystemInstruction(instruction) ==
    /\ systemInstruction' = instruction
    /\ lastOp' = Op("setSystemInstruction")
    /\ UNCHANGED <<gateVars, watchVars, limiterVars, chatVars, browserVars, messages, selectedModel, isGenerating,
                   isDarkMode, autoDeleteChats, storageEnabled, contextTokenCount,
                   showContextWarning>>

\* a faulty variant of EnableStorage: it switches storage on
EnableStorageSetsTrue ==
    /\ storageEnabled' = TRUE
    /\ lastOp' = Op("enableStorage")
    /\ UNCHANGED <<gateVars, watchVars, limiterVars, chatVars, browserVars, messages, selectedModel, isGenerating,
                   isDarkMode, autoDeleteChats, systemInstruction, contextTokenCount,
                   showContextWarning>>

\* enableStorage()
EnableStorage ==
    /\ storageEnabled' = FALSE
    /\ lastOp' = Op("enableStorage")
    /\ UNCHANGED <<gateVars, watchVars, limiterVars, chatVars, browserVars, messages, selectedModel, isGenerating,
                   isDarkMode, autoDeleteChats, systemInstruction, contextTokenCount,
                   showContextWarning>>

\* disableStorage()
DisableStorage ==
    /\ storageEnabled' = FALSE
    /\ lastOp' = Op("disableStorage")
    /\ UNCHANGED <<gateVars, watchVars, limiterVars, chatVars, browserVars, messages, selectedModel, isGenerating,
                   isDarkMode, autoDeleteChats, systemInstruction, contextTokenCount,
                   showContextWarning>>

\* exportChat(): builds and returns the markdown text, changes nothing
ExportChat ==
    /\ lastOp' = Op("exportChat")
    /\ UNCHANGED <<gateVars, watchVars, limiterVars, chatVars, browserVars, storeVars>>

\* updateContextTokenCount(count)
UpdateContextTokenCount(count) ==
    /\ contextTokenCount' = count
    /\ showContextWarning' = (count > ContextWarningTokens)
    /\ lastOp' = Op("updateContextTokenCount")
    /\ UNCHANGED <<gateVars, watchVars, limiterVars, chatVars, browserVars, messages, selectedModel, isGenerating,
                   isDarkMode, autoDeleteChats, systemInstruction, storageEnabled>>

\* dismissContextWarning()
DismissContextWarning ==
    /\ showContextWarning' = FALSE
    /\ lastOp' = Op("dismissContextWarning")
    /\ UNCHANGED <<gateVars, watchVars, limiterVars, chatVars, browserVars, messages, selectedModel, isGenerating,
                   isDarkMode, autoDeleteChats, systemInstruction, storageEnabled,
                   contextTokenCount>>

-----------------------------------------------------------------------------
(* SecurityManager: the storage scrub and the events that run it *)

\* window.location.port of the served page (the default port)
LocationPort == ""

\* isLocalOrOnion
IsLocalOrOnion ==
    \/ LocationHostname = localhost
    \/ LocationHostname = loopback_ip
    \/ EndsWith(LocationHostname, <<Dot, "onion">>)
    \/ StartsWith(LocationHostname, <<"192", Dot, "168", Dot>>)
    \/ StartsWith(LocationHostname, <<"10", Dot>>)
    \/ StartsWith(LocationHostname, <<"172", Dot>>)
    \/ LocationPort \in {"5173", "3000", "4173"}

\* the filter of the caches.keys() continuation of secureMemoryWipe
SmKeepsCache(name) == Includes(name, <<"webllm">>) \/ Includes(name, <<"mlc">>)

\* the filter of clearUserDataFromIndexedDB
SmKeepsDatabase(name) == \E a \in allowedDatabases : Includes(name, a)

\* the rest of clearUserDataFromIndexedDB, after await indexedDB.databases()
RunSmIdb ==
    /\ "smIdb" \in pending
    /\ page # "closed"
    /\ idb' = {d \in idb : SmKeepsDatabase(d)}
    /\ pending' = pending \ {"smIdb"}
    /\ lastOp' = Op("smIdbThen")
    /\ UNCHANGED <<gateVars, watchVars, limiterVars, chatVars, storeVars, documentClass, localStorage, sessionStorage, caches,
                   storageAccessible, unsupported, page, visible>>

\* caches.keys().then(...) of secureMemoryWipe
RunSmCaches ==
    /\ "smCaches" \in pending
    /\ page # "closed"
    /\ caches' = {c \in caches : SmKeepsCache(c)}
    /\ pending' = pending \ {"smCaches"}
    /\ lastOp' = Op("smCachesThen")
    /\ UNCHANGED <<gateVars, watchVars, limiterVars, chatVars, storeVars, documentClass, localStorage, sessionStorage, idb,
                   storageAccessible, unsupported, page, visible>>

\* the browsers the scrub is followed in: every API present, no crypto, and
\* neither the Cache API nor IndexedDB
BrowserProfiles == {{}, {"crypto"}, {"caches", "indexedDB"}}

\* secureMemoryWipe(): the storage is cleared at once when it is accessible,
\* the database and cache enumerations are left pending where the API
\* exists; the random overwrite is guarded and inside the try
SecureMemoryWipe ==
    /\ localStorage' = IF storageAccessible THEN EmptyStorage ELSE localStorage
    /\ sessionStorage' = IF storageAccessible THEN EmptyStorage ELSE sessionStorage
    /\ pending' = pending \cup ({"smIdb" : x \in {"indexedDB"} \ unsupported}
                                 \cup {"smCaches" : x \in {"caches"} \ unsupported})

\* App's handleBeforeUnload / handleVisibilityChange: clearMessages() when
\* auto-delete is on
AutoDelete ==
    IF autoDeleteChats
    THEN /\ messages' = << >>
         /\ contextTokenCount' = 0
         /\ showContextWarning' = FALSE
    ELSE UNCHANGED <<messages, contextTokenCount, showContextWarning>>

\* set-theme.js: the class the start-up script puts on the document
StartupThemeClass ==
    LET savedTheme == IF storageAccessible /\ THEME_KEY \in DOMAIN localStorage
                      THEN localStorage[THEME_KEY] ELSE "null"
    IN IF savedTheme = "light" THEN "light" ELSE "dark"

\* a page load: set-theme.js, the creation of the store, then
\* SecurityManager.getInstance() and with it the first secureMemoryWipe
PageLoad ==
    /\ page = "closed"
    /\ page' = "open"
    /\ visible' = TRUE
    /\ documentClass' = StartupThemeClass
    /\ messages' = << >>
    /\ selectedModel' = "null"
    /\ isGenerating' = FALSE
    /\ isDarkMode' = (StartupThemeClass = "dark")
    /\ autoDeleteChats' = FALSE
    /\ systemInstruction' = << >>
    /\ storageEnabled' = FALSE
    /\ contextTokenCount' = 0
    /\ showContextWarning' = FALSE
    /\ SecureMemoryWipe
    /\ lastOp' = Op("pageLoad")
    /\ UNCHANGED <<gateVars, watchVars, limiterVars, chatVars, idb, caches, storageAccessible, unsupported>>

\* visibilitychange: the tab becomes hidden, or visible again
VisibilityChange ==
    /\ page = "open"
    /\ visible' = ~visible
    /\ IF visible
       THEN /\ SecureMemoryWipe
            /\ AutoDelete
            /\ lastOp' = Op("hidden")
       ELSE /\ UNCHANGED <<localStorage, sessionStorage, pending, messages,
                           contextTokenCount, showContextWarning>>
            /\ lastOp' = Op("shown")
    /\ UNCHANGED <<gateVars, watchVars, limiterVars, chatVars, selectedModel, isGenerating, isDarkMode, autoDeleteChats,
                   systemInstruction, storageEnabled, documentClass, idb, caches,
                   storageAccessible, unsupported, page>>

\* beforeprint / afterprint
BeforePrint ==
    /\ page = "open"
    /\ SecureMemoryWipe
    /\ lastOp' = Op("print")
    /\ UNCHANGED <<gateVars, watchVars, limiterVars, chatVars, storeVars, documentClass, idb, caches, storageAccessible, unsupported,
                   page, visible>>

\* initiateSecurityProtocol(): totalMemoryWipe(), nothing else
InitiateSecurityProtocol ==
    /\ SecureMemoryWipe
    /\ lastOp' = Op("securityProtocol")
    /\ UNCHANGED <<gateVars, watchVars, limiterVars, chatVars, storeVars, documentClass, idb, caches, storageAccessible, unsupported,
                   page, visible>>

\* one run of detectDebugger, every 300 ms; signal tells whether the timing
\* or the window-size test sees developer tools
DetectDebugger ==
    /\ page = "open"
    /\ \E signal \in BOOLEAN :
          IF ~IsLocalOrOnion /\ signal
          THEN InitiateSecurityProtocol
          ELSE /\ lastOp' = Op("detectDebugger")
               /\ UNCHANGED <<gateVars, watchVars, limiterVars, chatVars, storeVars, browserVars>>

\* keydown of F12, Ctrl+Shift+I/C/J or Ctrl+U
DebugShortcut ==
    /\ page = "open"
    /\ IF IsLocalOrOnion
       THEN /\ lastOp' = Op("keydown")
            /\ UNCHANGED <<gateVars, watchVars, limiterVars, chatVars, storeVars, browserVars>>
       ELSE InitiateSecurityProtocol

\* the page unloads: beforeunload, pagehide and unload run the handler of
\* deployDataProtection, totalMemoryWipe and App's auto-delete
Unload ==
    /\ page = "open"
    /\ page' = "unloading"
    /\ SecureMemoryWipe
    /\ AutoDelete
    /\ lastOp' = Op("unload")
    /\ UNCHANGED <<gateVars, watchVars, limiterVars, chatVars, selectedModel, isGenerating, isDarkMode, autoDeleteChats,
                   systemInstruction, storageEnabled, documentClass, idb, caches,
                   storageAccessible, unsupported, visible>>

\* the browser discards the unloading page: its memory and the continuations
\* that have not run are gone
Teardown ==
    /\ page = "unloading"
    /\ page' = "closed"
    /\ pending' = {}
    /\ visible' = TRUE
    /\ documentClass' = "dark"
    /\ messages' = << >>
    /\ selectedModel' = "null"
    /\ isGenerating' = FALSE
    /\ isDarkMode' = TRUE
    /\ autoDeleteChats' = FALSE
    /\ systemInstruction' = << >>
    /\ storageEnabled' = FALSE
    /\ contextTokenCount' = 0
    /\ showContextWarning' = FALSE
    /\ lastOp' = Op("teardown")
    /\ UNCHANGED <<gateVars, watchVars, limiterVars, chatVars, localStorage, sessionStorage, idb, caches, storageAccessible, unsupported>>

-----------------------------------------------------------------------------
(* The DOM mutation watcher of deployForensicProtection.  An element is     *)
(* its tag name, the src property (of a script), its attribute names in     *)
(* the order of element.attributes, whether its outerHTML contains          *)
(* 'javascript:', and whether it is still in the document.                  *)

\* most attributes of an inserted element the model follows
MaxAttrs == 3

NoSrc == [form |-> "none", host |-> NoHost, text |-> ""]

\* attribute names, as the pieces startsWith('on') looks at
AttributeNames == {<<"on", "click">>, <<"on", "load">>, <<"on", "error">>, <<"class">>}

RECURSIVE DistinctSeqs(_, _)
\* the sequences of at most n distinct members of S
DistinctSeqs(S, n) ==
    IF n = 0 THEN {<< >>}
    ELSE LET shorter == DistinctSeqs(S, n - 1)
         IN shorter \cup {Append(q, a) : q \in {r \in shorter : Len(r) = n - 1},
                                        a \in S}

AttributeLists ==
    {q \in DistinctSeqs(AttributeNames, MaxAttrs) :
        \A i, j \in DOMAIN q : i # j => q[i] # q[j]}

\* the elements a page script or an extension inserts
InsertedElements ==
    { [tagName |-> t, src |-> NoSrc, attributes |-> a, javascriptUrl |-> j,
       attached |-> TRUE, processed |-> FALSE] :
        t \in {"DIV", "IFRAME"}, a \in AttributeLists, j \in BOOLEAN }
    \cup
    { [tagName |-> "SCRIPT", src |-> u, attributes |-> a, javascriptUrl |-> FALSE,
       attached |-> TRUE, processed |-> FALSE] :
        u \in {NoSrc, AbsUrl(LocationHostname), AbsUrl(<<"evil", Dot, "example", Dot, "com">>)},
        a \in {q \in AttributeLists : Len(q) <= 1} }

NoNode ==
    [tagName |-> "none", src |-> NoSrc, attributes |-> << >>, javascriptUrl |-> FALSE,
     attached |-> FALSE, processed |-> TRUE]

\* !src || src.startsWith(window.location.origin) || src.startsWith('/')
IsOwnScript(src) ==
    \/ src = NoSrc
    \/ (src.form = "abs" /\ StartsWith(src.host, LocationHostname))
    \/ UrlStartsWithSlash(src)

\* element.removeAttribute(attributes[i].name) on the live NamedNodeMap
RemoveAt(attrs, i) == SubSeq(attrs, 1, i - 1) \o SubSeq(attrs, i + 1, Len(attrs))

RECURSIVE StripHandlers(_, _)
\* for (let i = 0; i < attributes.length; i++): the map is live, so after a
\* removal the attribute that followed is at index i and i++ steps over it
\* (i here counts from 1)
StripHandlers(attrs, i) ==
    IF i > Len(attrs) THEN attrs
    ELSE IF StartsWith(attrs[i], <<"on">>)
         THEN StripHandlers(RemoveAt(attrs, i), i + 1)
         ELSE StripHandlers(attrs, i + 1)

\* the callback's work on one added element node: the element afterwards and
\* whether initiateSecurityProtocol() was called
ProcessAddedNode(element) ==
    IF element.tagName = "SCRIPT"
    THEN IF IsOwnScript(element.src)
         THEN [element |-> element, protocol |-> FALSE]
         ELSE [element |-> [element EXCEPT !.attached = IsLocalOrOnion],
               protocol |-> ~IsLocalOrOnion]
    ELSE LET dangerous == element.tagName \in {"IFRAME", "OBJECT", "EMBED", "APPLET"}
             stripped == StripHandlers(element.attributes, 1)
         IN [element |-> [element EXCEPT
                            !.attached = ~(dangerous /\ ~IsLocalOrOnion)
                                         /\ ~element.javascriptUrl,
                            !.attributes = stripped],
             protocol |-> /\ ~IsLocalOrOnion
                          /\ \/ dangerous
                             \/ element.javascriptUrl
                             \/ stripped # element.attributes]

\* a script of the page or an extension inserts an element
InsertNode(element) ==
    /\ page = "open"
    /\ node.processed
    /\ node' = element
    /\ lastOp' = Op("insertNode")
    /\ UNCHANGED <<gateVars, limiterVars, chatVars, storeVars, browserVars>>

\* the MutationObserver callback for the childList record of the insertion
ObserverCallback ==
    /\ page = "open"
    /\ ~node.processed
    /\ LET r == ProcessAddedNode(node)
       IN /\ node' = [r.element EXCEPT !.processed = TRUE]
          /\ IF r.protocol
             THEN SecureMemoryWipe
             ELSE UNCHANGED <<localStorage, sessionStorage, pending>>
    /\ lastOp' = Op("observerCallback")
    /\ UNCHANGED <<gateVars, limiterVars, chatVars, storeVars, documentClass, idb, caches,
                   storageAccessible, unsupported, page, visible>>

-----------------------------------------------------------------------------
(* RateLimiter *)

\* latest reading of Date.now() in a run of SpecLimiter
MaxClock == 6

\* the constructor arguments the limiter is followed with
LimiterMaxRequests == {1, 2}
LimiterWindows == {2, 3}

\* this.timestamps.filter(t => now - t < this.windowMs)
StillInWindow(ts, t, window) == SelectSeq(ts, LAMBDA x : t - x < window)

\* a faulty variant of LimitReached: one request too many is let through
LimitReachedOffByOne(ts, max) == Len(ts) > max

\* this.timestamps.length >= this.maxRequests
LimitReached(ts, max) == Len(ts) >= max

\* canProceed() at the reading t of Date.now()
CanProceed(t) ==
    LET kept == StillInWindow(timestamps, t, windowMs)
    IN /\ now' = t
       /\ IF LimitReached(kept, maxRequests)
          THEN /\ timestamps' = kept
               /\ granted' = granted
               /\ lastOp' = Op("canProceedFalse")
          ELSE /\ timestamps' = Append(kept, t)
               /\ granted' = Append(granted, t)
               /\ lastOp' = Op("canProceedTrue")
       /\ UNCHANGED <<requests, fetched, lastCall, maxRequests, windowMs, watchVars,
                      storeVars, browserVars, chatVars>>

-----------------------------------------------------------------------------
(* The inference service (WebLLMService) and the App and ChatInterface     *)
(* components that call it.  The model is of a browser that has            *)
(* navigator.gpu, so that initializeModel awaits the adapter probe.  The   *)
(* engine (MLCEngine) is the environment: its unload, reload and stream    *)
(* settle when and how they will.                                          *)

\* the models offered by the selector
Models == {"modelA", "modelB"}

\* this.engine = null
NoEngine == 0

\* this.abortController = null
NoController == 0

\* calls of initializeModel the model follows
MaxLoads == 3

\* clicks on a model button the model follows
MaxSelects == 2

\* calls of generateResponse the model follows
MaxGens == 2

\* token deltas one generation delivers at most
MaxChunks == 2

\* chunk.choices[0]?.delta?.content of a chunk that carries text
Tokens == {<<"Hel">>, <<"lo">>}

\* the delta of a chunk that carries no text
NoDelta == << >>

NoError == [name |-> "none", message |-> << >>]

\* what the engine's stream can throw
EngineErrors ==
    { [name |-> "Error", message |-> <<"Device was lost">>],
      [name |-> "Error", message |-> <<"out of tokens">>],
      [name |-> "AbortError", message |-> <<"The operation was aborted">>] }

\* reading this.abortController.signal when this.abortController is null
NullSignalError ==
    [name |-> "TypeError",
     message |-> <<"Cannot read properties of null (reading 'signal')">>]

\* a faulty variant of IsGPULost: 'Device was lost' is not recognised
IsGPULostNoDeviceLost(errorMessage) ==
    \/ Includes(errorMessage, <<"Instance reference no longer exists">>)
    \/ Includes(errorMessage, <<"GPUDeviceLostInfo">>)
    \/ Includes(errorMessage, <<"OperationError">>)

\* isGPULost
IsGPULost(errorMessage) ==
    \/ Includes(errorMessage, <<"Instance reference no longer exists">>)
    \/ Includes(errorMessage, <<"Device was lost">>)
    \/ Includes(errorMessage, <<"GPUDeviceLostInfo">>)
    \/ Includes(errorMessage, <<"OperationError">>)

\* the catch block of generateResponse: the error it throws in place of the
\* one it caught
GenerateResponseCatch(error) ==
    IF error.name = "AbortError"
    THEN [kind |-> "generationCancelled", message |-> <<"Generation cancelled">>]
    ELSE IF IsGPULost(error.message)
    THEN [kind |-> "generationGpuLost",
          message |-> <<"GPU_DEVICE_LOST",
                        ": GPU ran out of memory. Please reload the model or try a smaller one.">>]
    ELSE [kind |-> "generationFailed",
          message |-> <<"Failed to generate response: ">> \o error.message]

\* the message the catch block of handleSendMessage adds to the chat
HandlerErrorMessage(errorMsg) ==
    IF Includes(errorMsg, <<"GPU_DEVICE_LOST">>)
    THEN [role |-> "assistant",
          content |-> <<"GPU Memory Error ... reload the same model">>]
    ELSE [role |-> "assistant", content |-> <<"Error: ">> \o errorMsg]

\* the user message and the assistant placeholder of handleSendMessage
UserMessage == [role |-> "user", content |-> <<"hi">>]
AssistantPlaceholder == [role |-> "assistant", content |-> << >>]

\* fullResponse += delta
FullResponseAfter(fullResponse, delta) == fullResponse \o delta

\* a faulty variant of AssistantContentAfter: the content is the latest token
AssistantContentLatestOnly(assistantContent, token) == token

\* assistantContent += token
AssistantContentAfter(assistantContent, token) == assistantContent \o token

\* a call of generateResponse that is under way, with the closure of the
\* handleSendMessage call that made it
RunningGen(e) ==
    [pc |-> "running", eng |-> e, fullResponse |-> << >>, assistantContent |-> << >>,
     cancelled |-> FALSE]

\* a call of generateResponse that has returned or thrown
DoneGen ==
    [pc |-> "done", eng |-> NoEngine, fullResponse |-> << >>, assistantContent |-> << >>,
     cancelled |-> FALSE]

NoGen == [id |-> 0, error |-> NoError]

\* a call of initializeModel that has returned or thrown
DoneLoad == [model |-> "null", pc |-> "done", eng |-> NoEngine, caller |-> "none"]

\* the messages after addMessage, with the token estimate it stores
AddMessageTo(msgs) ==
    /\ messages' = msgs
    /\ contextTokenCount' = EstimatedTokens(msgs)
    /\ showContextWarning' = (EstimatedTokens(msgs) > ContextWarningTokens)

settingsVars == <<isDarkMode, autoDeleteChats, systemInstruction, storageEnabled>>

\* [...state.messages.slice(0, -1), { ...assistantMessage, content }]
ReplacedLast(msgs, content) ==
    Append(SubSeq(msgs, 1, Len(msgs) - 1), [AssistantPlaceholder EXCEPT !.content = content])

\* handleSendMessage(content), reached through InputArea.handleSubmit, up to
\* the first await of generateResponse
HandleSendMessage ==
    /\ currentView = "chat"
    /\ ~isGenerating
    /\ Len(gens) < MaxGens
    /\ IF selectedModel = "null" \/ engine = NoEngine
       THEN /\ lastOp' = Op("sendIgnored")
            /\ lastGen' = NoGen
            /\ UNCHANGED <<gateVars, watchVars, limiterVars, browserVars, storeVars, appVars, serviceVars, gens>>
       ELSE /\ AddMessageTo(messages \o <<UserMessage, AssistantPlaceholder>>)
            /\ isGenerating' = TRUE
            /\ abortController' = Len(gens) + 1
            /\ gens' = Append(gens, RunningGen(engine))
            /\ lastOp' = Op("send")
            /\ lastGen' = [id |-> Len(gens) + 1, error |-> NoError]
            /\ UNCHANGED <<gateVars, watchVars, limiterVars, browserVars, settingsVars, selectedModel, appVars,
                           engine, currentModel, isLoading, aborted, engines, loads>>

\* cancelGeneration() and setGenerating(false), from the Stop button or Escape
HandleStopGeneration ==
    /\ currentView = "chat"
    /\ isGenerating
    /\ IF abortController # NoController
       THEN /\ aborted' = aborted \cup {abortController}
            /\ gens' = [gens EXCEPT ![abortController].cancelled = TRUE]
            /\ abortController' = NoController
       ELSE UNCHANGED <<aborted, gens, abortController>>
    /\ isGenerating' = FALSE
    /\ lastOp' = Op("stop")
    /\ lastGen' = NoGen
    /\ UNCHANGED <<gateVars, watchVars, limiterVars, browserVars, settingsVars, messages, selectedModel,
                   contextTokenCount, showContextWarning, appVars, engine, currentModel,
                   isLoading, engines, loads>>

\* generateResponse returns fullResponse: its finally block, then the finally
\* block of handleSendMessage
GenerationReturns(g) ==
    /\ abortController' = NoController
    /\ gens' = [gens EXCEPT ![g] = DoneGen]
    /\ isGenerating' = FALSE
    /\ lastOp' = Op("generationReturned")
    /\ lastGen' = [id |-> g, error |-> NoError]
    /\ UNCHANGED <<gateVars, watchVars, limiterVars, browserVars, settingsVars, messages, selectedModel,
                   contextTokenCount, showContextWarning, appVars, engine, currentModel,
                   isLoading, aborted, engines, loads>>

\* generateResponse catches error: its catch and finally blocks, then the
\* catch and finally blocks of handleSendMessage
GenerationThrows(g, error) ==
    LET thrown == GenerateResponseCatch(error)
        gpuLost == thrown.kind = "generationGpuLost"
    IN /\ engine' = IF gpuLost THEN NoEngine ELSE engine
       /\ currentModel' = IF gpuLost THEN "null" ELSE currentModel
       /\ engines' = IF gpuLost THEN engines \ {gens[g].eng} ELSE engines
       /\ abortController' = NoController
       /\ gens' = [gens EXCEPT ![g] = DoneGen]
       /\ AddMessageTo(Append(messages, HandlerErrorMessage(thrown.message)))
       /\ isGenerating' = FALSE
       /\ lastOp' = Threw(thrown.kind)
       /\ lastGen' = [id |-> g, error |-> error]
       /\ UNCHANGED <<gateVars, watchVars, limiterVars, browserVars, settingsVars, selectedModel, appVars,
                      isLoading, aborted, loads>>

\* one turn of the for await loop of generateResponse, with the onToken
\* callback of handleSendMessage
StreamChunk(g, delta) ==
    /\ g \in DOMAIN gens
    /\ gens[g].pc = "running"
    /\ delta # NoDelta => Len(gens[g].fullResponse) < MaxChunks
    /\ IF abortController = NoController
       THEN GenerationThrows(g, NullSignalError)
       ELSE IF abortController \in aborted
       THEN GenerationReturns(g)
       ELSE IF delta = NoDelta
       THEN /\ lastOp' = Op("emptyChunk")
            /\ lastGen' = [id |-> g, error |-> NoError]
            /\ UNCHANGED <<gateVars, watchVars, limiterVars, browserVars, storeVars, appVars, serviceVars, gens>>
       ELSE LET content == AssistantContentAfter(gens[g].assistantContent, delta)
            IN /\ gens' = [gens EXCEPT
                              ![g].fullResponse = FullResponseAfter(@, delta),
                              ![g].assistantContent = content]
               /\ messages' = ReplacedLast(messages, content)
               /\ lastOp' = Op("onToken")
               /\ lastGen' = [id |-> g, error |-> NoError]
               /\ UNCHANGED <<gateVars, watchVars, limiterVars, browserVars, settingsVars, selectedModel,
                              isGenerating, contextTokenCount, showContextWarning,
                              appVars, serviceVars>>

\* the stream of a generation ends
StreamEnd(g) ==
    /\ g \in DOMAIN gens
    /\ gens[g].pc = "running"
    /\ GenerationReturns(g)

\* the engine rejects completions.create or the stream throws
StreamError(g, error) ==
    /\ g \in DOMAIN gens
    /\ gens[g].pc = "running"
    /\ GenerationThrows(g, error)

\* what a call of initializeModel(model) does before its first await:
\* "throw" (already loading), "unload" (await this.cleanup()), "return" (the
\* model is loaded) or "load"
InitializeModelEntry(model) ==
    IF isLoading THEN "throw"
    ELSE IF engine # NoEngine /\ currentModel # model THEN "unload"
    ELSE IF engine # NoEngine /\ currentModel = model THEN "return"
    ELSE "load"

\* initializeModel(model), up to its first await
InitializeModelCall(model, caller) ==
    LET entry == InitializeModelEntry(model)
    IN /\ isLoading' = IF entry = "load" THEN TRUE ELSE isLoading
       /\ loads' = Append(loads,
              CASE entry = "unload" ->
                       [model |-> model, pc |-> "unloading", eng |-> engine, caller |-> caller]
                [] entry = "load" ->
                       [model |-> model, pc |-> "probing", eng |-> NoEngine, caller |-> caller]
                [] OTHER -> DoneLoad)
       /\ lastOp' = IF entry = "throw" THEN Threw("initializeModel")
                    ELSE Op("initializeModel")
       /\ lastGen' = NoGen
       /\ UNCHANGED <<engine, currentModel, abortController, aborted, engines, gens>>

\* a caller other than the App component calls initializeModel(model)
ServiceInitializeModel(model) ==
    /\ Len(loads) < MaxLoads
    /\ InitializeModelCall(model, "api")
    /\ UNCHANGED <<gateVars, watchVars, limiterVars, browserVars, storeVars, appVars>>

\* handleModelSelect(model), from a model button of the selector, up to the
\* first await; when initializeModel returns or throws at once, to the end
HandleModelSelect(model) ==
    LET entry == InitializeModelEntry(model)
    IN /\ currentView = "model-select"
       /\ ~isModelLoading
       /\ Len(loads) < MaxSelects
       /\ selectedModel' = model
       /\ InitializeModelCall(model, "app")
       /\ isModelLoading' = (entry \in {"load", "unload"})
       /\ currentView' = IF entry = "return" THEN "chat" ELSE currentView
       /\ UNCHANGED <<gateVars, watchVars, limiterVars, browserVars, settingsVars, messages, isGenerating,
                      contextTokenCount, showContextWarning>>

\* this.engine.unload() settles: the rest of cleanup(), then initializeModel
\* up to the adapter probe
UnloadSettled(c) ==
    /\ c \in DOMAIN loads
    /\ loads[c].pc = "unloading"
    /\ engines' = engines \ {loads[c].eng}
    /\ engine' = NoEngine
    /\ currentModel' = "null"
    /\ isLoading' = TRUE
    /\ loads' = [loads EXCEPT ![c].pc = "probing", ![c].eng = NoEngine]
    /\ lastOp' = Op("unloaded")
    /\ lastGen' = NoGen
    /\ UNCHANGED <<gateVars, watchVars, limiterVars, browserVars, storeVars, appVars, abortController, aborted, gens>>

\* navigator.gpu.requestAdapter() settles: initializeModel creates the engine
\* and calls its reload
ProbeSettled(c) ==
    /\ c \in DOMAIN loads
    /\ loads[c].pc = "probing"
    /\ engine' = c
    /\ engines' = engines \cup {c}
    /\ loads' = [loads EXCEPT ![c].pc = "reloading", ![c].eng = c]
    /\ lastOp' = Op("engineCreated")
    /\ lastGen' = NoGen
    /\ UNCHANGED <<gateVars, watchVars, limiterVars, browserVars, storeVars, appVars, currentModel, isLoading,
                   abortController, aborted, gens>>

\* engine.reload(model) settles: the rest of initializeModel, then the rest
\* of handleModelSelect when the App component made the call
ReloadSettled(c, ok) ==
    /\ c \in DOMAIN loads
    /\ loads[c].pc = "reloading"
    /\ currentModel' = IF ok THEN loads[c].model ELSE currentModel
    /\ isLoading' = FALSE
    /\ loads' = [loads EXCEPT ![c] = DoneLoad]
    /\ IF loads[c].caller = "app"
       THEN /\ currentView' = IF ok THEN "chat" ELSE currentView
            /\ isModelLoading' = FALSE
       ELSE UNCHANGED appVars
    /\ lastOp' = IF ok THEN Op("modelLoaded") ELSE Threw("modelLoad")
    /\ lastGen' = NoGen
    /\ UNCHANGED <<gateVars, watchVars, limiterVars, browserVars, storeVars, engine, abortController, aborted,
                   engines, gens>>

\* handleStartChat, from the landing page
HandleStartChat ==
    /\ currentView = "landing"
    /\ currentView' = "model-select"
    /\ lastOp' = Op("startChat")
    /\ lastGen' = NoGen
    /\ UNCHANGED <<gateVars, watchVars, limiterVars, browserVars, storeVars, isModelLoading, serviceVars, gens>>

\* onBack of the selector: setCurrentView('landing')
BackToLanding ==
    /\ currentView = "model-select"
    /\ currentView' = "landing"
    /\ lastOp' = Op("backToLanding")
    /\ lastGen' = NoGen
    /\ UNCHANGED <<gateVars, watchVars, limiterVars, browserVars, storeVars, isModelLoading, serviceVars, gens>>

\* onBack of the chat header: setCurrentView('model-select')
BackToModelSelect ==
    /\ currentView = "chat"
    /\ currentView' = "model-select"
    /\ lastOp' = Op("backToModelSelect")
    /\ lastGen' = NoGen
    /\ UNCHANGED <<gateVars, watchVars, limiterVars, browserVars, storeVars, isModelLoading, serviceVars, gens>>

-----------------------------------------------------------------------------
(* Initial states and specifications *)

\* the App component and the service it creates, before any click
InitChatVars ==
    /\ currentView = "landing"
    /\ isModelLoading = FALSE
    /\ engine = NoEngine
    /\ currentModel = "null"
    /\ isLoading = FALSE
    /\ abortController = NoController
    /\ aborted = {}
    /\ engines = {}
    /\ loads = << >>
    /\ gens = << >>
    /\ lastGen = NoGen


InitGateVars ==
    /\ requests = << >>
    /\ now = 0
    /\ fetched = << >>
    /\ lastCall = NoCall

\* the initial state of create<ChatState>(); getInitialDarkMode() reads the
\* class that set-theme.js put on the document
InitStoreVars ==
    /\ messages = << >>
    /\ selectedModel = "null"
    /\ isGenerating = FALSE
    /\ isDarkMode = (documentClass = "dark")
    /\ autoDeleteChats = FALSE
    /\ systemInstruction = << >>
    /\ storageEnabled = FALSE
    /\ contextTokenCount = 0
    /\ showContextWarning = FALSE

\* a page that is open, with nothing stored but the caches and databases of
\* the origin
InitOpenPage ==
    /\ documentClass = "dark"
    /\ localStorage = EmptyStorage
    /\ sessionStorage = EmptyStorage
    /\ idb = IdbUniverse
    /\ caches = CacheUniverse
    /\ storageAccessible \in BOOLEAN
    /\ pending = {}
    /\ page = "open"
    /\ visible = TRUE
    /\ unsupported = {}

\* no childList mutation has been delivered yet
InitWatchVars == node = NoNode

\* InputArea's new RateLimiter(10, 60000)
InitLimiterVars ==
    /\ timestamps = << >>
    /\ maxRequests = 10
    /\ windowMs = 60000
    /\ granted = << >>

InitGate ==
    /\ InitGateVars
    /\ InitOpenPage
    /\ InitStoreVars
    /\ InitChatVars
    /\ InitWatchVars
    /\ InitLimiterVars
    /\ lastOp = Op("init")

NextGate == Fetch

SpecGate == InitGate /\ [][NextGate]_vars

NextAudit == AuditLogRequest \/ AuditClear

SpecAudit == InitGate /\ [][NextAudit]_vars

InitStore == InitGate

NextStore ==
    \/ \E m \in ChatMessages : Len(messages) < MaxMsgs /\ AddMessage(m)
    \/ \E c \in StreamContents : SetStateReplaceLast(c)
    \/ ClearMessages
    \/ ClearAllHistory
    \/ SetSelectedModel("modelA")
    \/ \E b \in BOOLEAN : SetGenerating(b)
    \/ ToggleDarkMode
    \/ \E b \in BOOLEAN : SetAutoDeleteChats(b)
    \/ \E t \in {<< >>, <<"hi">>} : SetSystemInstruction(t)
    \/ EnableStorage
    \/ DisableStorage
    \/ ExportChat
    \/ \E n \in {0, ContextWarningTokens + 1} : UpdateContextTokenCount(n)
    \/ DismissContextWarning

SpecStore == InitStore /\ [][NextStore]_vars

\* before the page is loaded: what earlier sessions and other pages of the
\* origin left in storage
InitScrub ==
    /\ InitGateVars
    /\ documentClass = "dark"
    /\ InitStoreVars
    /\ localStorage \in {EmptyStorage, [k \in {"draft"} |-> "text"]}
    /\ sessionStorage \in {EmptyStorage, [k \in {"draft"} |-> "text"]}
    /\ idb = IdbUniverse
    /\ caches = CacheUniverse
    /\ storageAccessible \in BOOLEAN
    /\ pending = {}
    /\ page = "closed"
    /\ visible = TRUE
    /\ unsupported \in BrowserProfiles
    /\ InitChatVars
    /\ InitWatchVars
    /\ InitLimiterVars
    /\ lastOp = Op("init")

NextScrub ==
    \/ PageLoad
    \/ VisibilityChange
    \/ BeforePrint
    \/ DetectDebugger
    \/ DebugShortcut
    \/ Unload
    \/ Teardown
    \/ RunSmIdb
    \/ RunSmCaches
    \/ RunStoreIdb
    \/ RunStoreCaches
    \/ (page = "open" /\ Len(messages) < 1 /\ AddMessage([role |-> "user", content |-> <<"hi">>]))
    \/ (page = "open" /\ ClearAllHistory)
    \/ (page = "open" /\ ToggleDarkMode)
    \/ (page = "open" /\ \E b \in BOOLEAN : SetAutoDeleteChats(b))

\* the interval timer keeps firing while the page is open, and a promise
\* that has resolved runs its continuation unless the page is torn down
SpecScrub ==
    /\ InitScrub
    /\ [][NextScrub]_vars
    /\ WF_vars(DetectDebugger)
    /\ WF_vars(RunSmIdb)
    /\ WF_vars(RunSmCaches)
    /\ WF_vars(RunStoreIdb)
    /\ WF_vars(RunStoreCaches)

InitChat == InitGate /\ storageAccessible = TRUE

NextChat ==
    \/ HandleStartChat
    \/ BackToLanding
    \/ BackToModelSelect
    \/ \E m \in Models : HandleModelSelect(m)
    \/ \E c \in 1..MaxLoads : UnloadSettled(c)
    \/ \E c \in 1..MaxLoads : ProbeSettled(c)
    \/ \E c \in 1..MaxLoads, ok \in BOOLEAN : ReloadSettled(c, ok)
    \/ HandleSendMessage
    \/ HandleStopGeneration
    \/ \E g \in 1..MaxGens, delta \in Tokens \cup {NoDelta} : StreamChunk(g, delta)
    \/ \E g \in 1..MaxGens : StreamEnd(g)
    \/ \E g \in 1..MaxGens, e \in EngineErrors : StreamError(g, e)

SpecChat == InitChat /\ [][NextChat]_vars

InitService == InitGate

NextService ==
    \/ \E m \in Models : ServiceInitializeModel(m)
    \/ \E c \in 1..MaxLoads : UnloadSettled(c)
    \/ \E c \in 1..MaxLoads : ProbeSettled(c)
    \/ \E c \in 1..MaxLoads, ok \in BOOLEAN : ReloadSettled(c, ok)

SpecService == InitService /\ [][NextService]_vars

\* the chat view with modelA loaded: the state after Start, a click on
\* modelA and a load that succeeded
InitStream ==
    /\ InitGateVars
    /\ InitOpenPage
    /\ storageAccessible = TRUE
    /\ messages = << >>
    /\ selectedModel = "modelA"
    /\ isGenerating = FALSE
    /\ isDarkMode = TRUE
    /\ autoDeleteChats = FALSE
    /\ systemInstruction = << >>
    /\ storageEnabled = FALSE
    /\ contextTokenCount = 0
    /\ showContextWarning = FALSE
    /\ currentView = "chat"
    /\ isModelLoading = FALSE
    /\ engine = 1
    /\ currentModel = "modelA"
    /\ isLoading = FALSE
    /\ abortController = NoController
    /\ aborted = {}
    /\ engines = {1}
    /\ loads = <<DoneLoad>>
    /\ gens = << >>
    /\ lastGen = NoGen
    /\ InitWatchVars
    /\ InitLimiterVars
    /\ lastOp = Op("modelLoaded")

\* the chat of one loaded model: sends, the stream, the clear actions of the
\* store and the auto-delete of the App component
NextStream ==
    \/ HandleSendMessage
    \/ HandleStopGeneration
    \/ \E g \in 1..MaxGens, delta \in Tokens \cup {NoDelta} : StreamChunk(g, delta)
    \/ \E g \in 1..MaxGens : StreamEnd(g)
    \/ \E g \in 1..MaxGens, e \in EngineErrors : StreamError(g, e)
    \/ \E b \in BOOLEAN : SetAutoDeleteChats(b)
    \/ VisibilityChange
    \/ ClearMessages
    \/ ClearAllHistory

SpecStream == InitStream /\ [][NextStream]_vars

\* new RateLimiter(maxRequests, windowMs)
InitLimiter ==
    /\ InitGateVars
    /\ InitOpenPage
    /\ InitStoreVars
    /\ InitChatVars
    /\ InitWatchVars
    /\ timestamps = << >>
    /\ maxRequests \in LimiterMaxRequests
    /\ windowMs \in LimiterWindows
    /\ granted = << >>
    /\ lastOp = Op("init")

\* calls of canProceed() at times that do not decrease
NextLimiter == \E t \in now..MaxClock : CanProceed(t)

SpecLimiter == InitLimiter /\ [][NextLimiter]_vars

InitWatcher == InitGate

NextWatcher ==
    \/ \E element \in InsertedElements : InsertNode(element)
    \/ ObserverCallback
    \/ RunSmIdb
    \/ RunSmCaches

SpecWatcher == InitWatcher /\ [][NextWatcher]_vars

-----------------------------------------------------------------------------
(* Claims about the network gate *)

\* the host the original fetch would contact for this input
PermittedDestination(input) ==
    LET p == ParseURL(input.url) IN p.ok /\ p.hostname \in PermittedHosts

LastLogged == requests[Len(requests)]

\* C1: every call whose destination is none of the permitted classes is
\* rejected, never reaches the original fetch, and leaves a blocked entry.
C1_ForeignRejected ==
    (lastCall.called /\ ~PermittedDestination(lastCall.input)) =>
        /\ lastCall.threw
        /\ Len(fetched) = lastCall.nFetched
        /\ Len(requests) > lastCall.nLogged
        /\ \E i \in (lastCall.nLogged + 1)..Len(requests) : requests[i].blocked

C3_OneEntryPerCall ==
    lastCall.called =>
        /\ Len(requests) = lastCall.nLogged + 1
        /\ LastLogged.blocked <=> lastCall.threw
        /\ (lastCall.input = [kind |-> "string",
                              url |-> AbsUrl(<<"evil", Dot, "example", Dot, "com">>)]) =>
              (lastCall.threw /\ LastLogged.blocked
               /\ LastLogged.reason = "Domain not in whitelist")

-----------------------------------------------------------------------------
(* Claims about the audit log *)

\* C4: the log never holds more than MAX_ENTRIES entries, and a logRequest
\* on a full log drops exactly the oldest entry, keeps the others in order
\* and puts the new entry last.
C4_BoundedFifo ==
    /\ [](Len(requests) <= MAX_ENTRIES)
    /\ [][(now' # now /\ Len(requests) = MAX_ENTRIES) =>
            /\ Len(requests') = MAX_ENTRIES
            /\ SubSeq(requests', 1, MAX_ENTRIES - 1) = Tail(requests)
            /\ requests'[MAX_ENTRIES].timestamp = now]_vars

C4_Witness ==
    /\ Len(requests) = MAX_ENTRIES
    /\ requests[1].timestamp = Overflow
    /\ requests[MAX_ENTRIES].timestamp = MAX_ENTRIES + Overflow - 1

-----------------------------------------------------------------------------
(* Claims about the chat store *)

\* C5: storageEnabled is false in every reachable state of the store,
\* whatever sequence of enableStorage, disableStorage and other actions ran.
C5_StorageNeverEnabled == storageEnabled = FALSE

C5_Witness == lastOp.op = "enableStorage" /\ messages # << >> /\ ~isDarkMode

\* every key of the storage after the step had the same value before it
NothingWritten(before, after) ==
    \A k \in DOMAIN after : k \in DOMAIN before /\ before[k] = after[k]

\* C6: no action of the store (addMessage, the streaming update,
\* setSystemInstruction, toggleDarkMode, setAutoDeleteChats, exportChat, the
\* clears) writes a value to localStorage, sessionStorage or IndexedDB.
C6_NoDurableWrite ==
    [][/\ NothingWritten(localStorage, localStorage')
       /\ NothingWritten(sessionStorage, sessionStorage')
       /\ idb' \subseteq idb]_vars

\* C10: after clearMessages or clearAllHistory the message list is empty,
\* contextTokenCount is 0 and showContextWarning is false, whatever the list
\* held; the clear never fails part-way.
C10_ClearEmpties ==
    lastOp.op \in {"clearMessages", "clearAllHistory"} =>
        /\ ~lastOp.threw
        /\ messages = << >>
        /\ contextTokenCount = 0
        /\ showContextWarning = FALSE

-----------------------------------------------------------------------------
(* Claims about the storage scrub *)

\* the databases and caches of the documented allow-list that exist when the
\* page is first loaded
ModelDatabases == IdbUniverse \cap allowedDatabases

OnCacheAllowList(name) ==
    \/ Includes(name, <<"webllm">>)
    \/ Includes(name, <<"mlc">>)
    \/ Includes(name, <<"tvmjs">>)
    \/ Includes(name, <<"oblivai-static">>)

\* C7: once the page has unloaded (storage being accessible), localStorage
\* and sessionStorage are empty, every database that is not on the
\* allow-list is deleted and no database of the allow-list is.
C7_UnloadScrubEffective ==
    (lastOp.op = "teardown" /\ storageAccessible) =>
        /\ localStorage = EmptyStorage
        /\ sessionStorage = EmptyStorage
        /\ idb = ModelDatabases

\* states in which secureMemoryWipe has just run
JustScrubbed == lastOp.op \in {"pageLoad", "hidden", "print", "securityProtocol", "unload"}

\* C8: while the page stays open and visible and no tampering is detected,
\* the scrub keeps recurring: after each scrub another one follows.
C8_PeriodicScrub ==
    <>[](page = "open" /\ visible /\ lastOp.op # "securityProtocol") => []<>JustScrubbed

\* C9: no scrub (secureMemoryWipe, the unload scrub, clearAllHistory) deletes
\* a model cache or database (webllm, mlc, tvmjs) or the static-asset cache
\* (oblivai-static), and both scrubs keep the same caches.
C9_AllowListKept ==
    /\ \A c \in CacheUniverse : OnCacheAllowList(c) => c \in caches
    /\ ModelDatabases \subseteq idb
    /\ lastOp.op \in {"smCachesThen", "storeCachesThen"} =>
          \A c \in CacheUniverse : SmKeepsCache(c) <=> StoreKeepsCache(c)

-----------------------------------------------------------------------------
(* Claims about sending, streaming and cancelling *)

\* the generation started by the latest send is under way and has not been
\* cancelled
LatestGenActive(gs) ==
    gs # << >> /\ gs[Len(gs)].pc = "running" /\ ~gs[Len(gs)].cancelled

\* C11: a send with no model selected or loaded changes neither the messages
\* nor isGenerating; a send with a model loaded appends the user message and
\* then an empty assistant placeholder; and while the generation it started
\* is neither complete nor cancelled, every change of the messages extends
\* the content of the last message, the placeholder, by one token.
C11_SendAndStream ==
    [][/\ lastOp'.op = "sendIgnored" =>
              messages' = messages /\ isGenerating' = isGenerating
       /\ lastOp'.op = "send" =>
              messages' = messages \o <<UserMessage, AssistantPlaceholder>>
       /\ (LatestGenActive(gens) /\ Len(gens') = Len(gens) /\ LatestGenActive(gens')
              /\ messages' # messages) =>
              /\ messages # << >>
              /\ \E t \in Tokens :
                    messages' = [messages EXCEPT ![Len(messages)].content = @ \o t]]_vars

\* the calls of generateResponse that have not returned or thrown yet
InFlight == {g \in DOMAIN gens : gens[g].pc = "running"}

\* C12: at most one generation is in flight: no generateResponse call is
\* started while an earlier one has not returned.
C12_OneGenerationInFlight == Cardinality(InFlight) <= 1

\* C13: after each token callback of a generation the content of the last
\* message is the concatenation, in the order received, of the deltas that
\* generation has delivered.
C13_TokensInOrder ==
    lastOp.op = "onToken" =>
        /\ messages # << >>
        /\ messages[Len(messages)].content = gens[lastGen.id].fullResponse

C13_Witness ==
    /\ lastOp.op = "onToken"
    /\ gens[lastGen.id].fullResponse = <<"Hel", "lo">>
    /\ Len(messages) > 2

\* C14: once cancelGeneration has been called for a generation, no token
\* callback of it runs any more, and until the next send the messages stay
\* as they were at the cancellation.
C14_CancelStopsTokens ==
    [][/\ lastOp'.op = "onToken" => ~gens[lastGen'.id].cancelled
       /\ (gens # << >> /\ gens[Len(gens)].cancelled /\ Len(gens') = Len(gens)) =>
              messages' = messages]_vars

\* C15: a generation that was cancelled does not end as the generic "Failed
\* to generate response" failure, and its end adds no message to the chat.
C15_CancelIsNoError ==
    [][\A g \in DOMAIN gens :
          (gens[g].cancelled /\ lastGen'.id = g /\ gens'[g].pc = "done") =>
              /\ lastOp'.op # "generationFailed"
              /\ messages' = messages]_vars

-----------------------------------------------------------------------------
(* Claims about loading models and about the views *)

\* the calls of initializeModel that have not returned or thrown yet
LoadsInFlight == {c \in DOMAIN loads : loads[c].pc # "done"}

\* C16: only one model is loaded at a time: when a model is switched the
\* engine of the previous one is unloaded before the new engine is created,
\* so that two engines never exist together.
C16_OneEngine == Cardinality(engines) <= 1

\* C17: a call of initializeModel made while an earlier call has not
\* completed throws "Model is already loading" and creates no engine,
\* wherever the earlier call stands (unloading, probing, reloading).
C17_SecondLoadRejected ==
    [][(LoadsInFlight # {} /\ Len(loads') = Len(loads) + 1) =>
          /\ lastOp' = Threw("initializeModel")
          /\ loads'[Len(loads')] = DoneLoad
          /\ engines' = engines]_vars

\* an error of the engine that reports the loss of the GPU device
DeviceMemoryLoss(error) == error.name = "Error" /\ error.message = <<"Device was lost">>

ValidTransitions ==
    { <<"landing", "model-select">>, <<"model-select", "chat">>,
      <<"model-select", "landing">>, <<"chat", "model-select">> }

\* C19: the view changes only from landing to model-select, from
\* model-select to chat or to landing, and from chat to model-select.
C19_ViewTransitions ==
    [][currentView' # currentView => <<currentView, currentView'>> \in ValidTransitions]_vars

\* C20: whenever the view becomes chat the service has a loaded model:
\* isModelLoaded() is true at that moment.
C20_ChatNeedsModel ==
    [][(currentView' = "chat" /\ currentView # "chat") => engine' # NoEngine]_vars

-----------------------------------------------------------------------------
(* Claims about the DOM mutation watcher *)

\* C23: once the watcher has processed an inserted element, none of the
\* element's attributes has a name that starts with "on".
C23_HandlersStripped ==
    (node # NoNode /\ node.processed) =>
        \A i \in DOMAIN node.attributes : ~StartsWith(node.attributes[i], <<"on">>)

-----------------------------------------------------------------------------
(* Claims about failure of the scrub and clear operations *)

\* C21: in a browser where storage is denied, or the Cache API, IndexedDB or
\* crypto is missing, the unload scrub, secureMemoryWipe and clearAllHistory
\* return without an error to their caller, and clearAllHistory leaves the
\* message list empty.
C21_SilentDegradation ==
    ((unsupported # {} \/ ~storageAccessible)
       /\ lastOp.op \in {"unload", "hidden", "print", "pageLoad", "securityProtocol",
                         "clearAllHistory"}) =>
        /\ ~lastOp.threw
        /\ lastOp.op = "clearAllHistory" => messages = << >>

\* the theme saved under oblivai-theme, "null" when there is none
SavedTheme(storage) ==
    IF THEME_KEY \in DOMAIN storage THEN storage[THEME_KEY] ELSE "null"

\* C24: with storage accessible, toggleDarkMode saves the theme it applies
\* under oblivai-theme, no other step (the scrubs of unload, of the hidden
\* tab and of start-up included) removes or changes a saved theme, and a page
\* load applies the saved theme.
C24_ThemeSurvives ==
    [][storageAccessible =>
         /\ lastOp'.op = "toggleDarkMode" => SavedTheme(localStorage') = documentClass'
         /\ (lastOp'.op # "toggleDarkMode" /\ SavedTheme(localStorage) # "null") =>
                SavedTheme(localStorage') = SavedTheme(localStorage)
         /\ (lastOp'.op = "pageLoad" /\ SavedTheme(localStorage) # "null") =>
                documentClass' = SavedTheme(localStorage)]_vars

-----------------------------------------------------------------------------
(* Claims about the host test of the gate *)

\* the classes of isLocalRequest other than the page's own host
LocalClass(hostname) ==
    \/ hostname = localhost
    \/ hostname = loopback_ip
    \/ EndsWith(hostname, <<Dot, "onion">>)
    \/ StartsWith(hostname, <<"192", Dot, "168", Dot>>)
    \/ StartsWith(hostname, <<"10", Dot>>)
    \/ \E n \in 16..31 : StartsWith(hostname, <<"172", Dot, ToString(n), Dot>>)

\* C25: a call the gate lets through as allow-listed or same-origin goes to
\* a host that is an allow-listed domain or the page's host, or a subdomain
\* of one (the test of validateOrigin); a host that only contains such a
\* name is rejected.
C25_DomainOrSubdomain ==
    LET p == ParseURL(InputToString(lastCall.input))
    IN (lastCall.called /\ p.ok /\ ~LocalClass(p.hostname) /\ ~lastCall.threw) =>
          \/ \E i \in DOMAIN allowedDomains : MatchesDomain(p.hostname, allowedDomains[i])
          \/ MatchesDomain(p.hostname, LocationHostname)

-----------------------------------------------------------------------------
(* Claims about the state the service reports *)

\* isModelLoaded()
isModelLoaded == engine # NoEngine

\* getCurrentModel()
getCurrentModel == currentModel

\* C26: while no call of initializeModel is under way, isModelLoaded() is
\* true exactly when getCurrentModel() is not null; after a failed load no
\* model is reported as loaded.
C26_LoadedIffCurrentModel ==
    (~isLoading /\ LoadsInFlight = {}) => (isModelLoaded <=> getCurrentModel # "null")

\* the generateResponse calls that have not returned and stream from engine e
GenerationsOn(e) == {g \in DOMAIN gens : gens[g].pc = "running" /\ gens[g].eng = e}

\* C30: cleanup() starts the unload of the loaded engine only when no
\* generateResponse call on that engine is still in flight.
C30_NoUnloadWhileGenerating ==
    [][\A c \in DOMAIN loads' :
          (loads'[c].pc = "unloading" /\ (c \notin DOMAIN loads \/ loads[c].pc # "unloading"))
             => GenerationsOn(loads'[c].eng) = {}]_vars

-----------------------------------------------------------------------------
(* Claims about the message list during and after a stream *)

\* C22: with auto-delete on, the step of a hidden tab or of an unload leaves
\* the message list empty, and the list is still empty after the next step
\* unless that step is a send; with auto-delete off the event leaves the
\* list as it was.
C22_AutoDeleteEmpties ==
    [][/\ lastOp'.op \in {"hidden", "unload"} =>
             IF autoDeleteChats THEN messages' = << >> ELSE messages' = messages
       /\ (lastOp.op \in {"hidden", "unload"} /\ autoDeleteChats /\ lastOp'.op # "send") =>
             messages' = << >>]_vars

\* C27: a token callback adds no message to the list (it cannot bring a
\* message back after a clear), and the callback of a generation that is not
\* the latest send changes no message.
C27_TokenTouchesOwnPlaceholder ==
    [][lastOp'.op = "onToken" =>
          /\ Len(messages') = Len(messages)
          /\ lastGen'.id < Len(gens) => messages' = messages]_vars

\* C28: while no generateResponse call is in flight, contextTokenCount is
\* ceil(characters of all messages / 4).
C28_TokenCountCurrent ==
    InFlight = {} => contextTokenCount = EstimatedTokens(messages)

-----------------------------------------------------------------------------
(* Claims about the RateLimiter *)

\* C29: of the calls of canProceed() that returned true, any maxRequests + 1
\* span at least windowMs, so that no interval shorter than windowMs holds
\* more than maxRequests of them; and a call that returns false adds no
\* timestamp: it leaves the timestamps still in the window as they were.
C29_WindowRespected ==
    /\ [](\A i, j \in DOMAIN granted :
             j - i >= maxRequests => granted[j] - granted[i] >= windowMs)
    /\ [][lastOp'.op = "canProceedFalse" =>
             /\ timestamps' = StillInWindow(timestamps, now', windowMs)
             /\ granted' = granted]_vars

\* C29, witness: the limiter has refused a call and has later, the window
\* having passed, granted more calls than maxRequests
C29_Witness ==
    /\ Len(granted) > maxRequests
    /\ lastOp.op = "canProceedFalse"
    /\ Len(timestamps) = maxRequests
    /\ Len(timestamps) < Len(granted)

=============================================================================
